---- MODULE Spec2Model ----
(***************************************************************************)
(* The huggingface_model_etl DAG of dags/app.py: three PythonOperator      *)
(* tasks (extract, transform, load) chained by >>, handing data over       *)
(* through XCom and upserting into the ai_models table.                    *)
(***************************************************************************)
EXTENDS Integers, Sequences, FiniteSets, TLC

(***************************************************************************)
(* Python values.  Every value carries its type, so that truthiness,       *)
(* `x or y`, dict.get and str() are computed as Python computes them.      *)
(***************************************************************************)
None == [py |-> "NoneType"]
Str(s) == [py |-> "str", v |-> s]
List(q) == [py |-> "list", v |-> q]
Datetime(iso) == [py |-> "datetime", v |-> iso]

\* bool(v): None, "" and [] are falsy.
Truthy(v) ==
    /\ v.py # "NoneType"
    /\ v.py = "str" => v.v # ""
    /\ v.py = "list" => v.v # <<>>

\* a or b
Or(a, b) == IF Truthy(a) THEN a ELSE b

\* m.get(key): None when the key is missing.
Get(m, key) == IF key \in DOMAIN m THEN m[key] ELSE None

\* str(v): "None" for None, the ISO text for a datetime.
str(v) == IF v.py = "NoneType" THEN Str("None") ELSE Str(v.v)

(***************************************************************************)
(* The hub.  list_models(sort="lastModified", direction=-1, limit=50,      *)
(* cardData=True) returns at most `limit` ModelInfo objects; the model     *)
(* draws them from a small catalogue and keeps pages to MaxModels items.   *)
(***************************************************************************)
limit == 50
MaxModels == 3

ModelInfo(id, author, pipeline_tag, tags, lastModified) ==
    [id |-> id, author |-> author, pipeline_tag |-> pipeline_tag,
     tags |-> tags, lastModified |-> lastModified]

D1 == Datetime("2024-01-01 00:00:00+00:00")
D2 == Datetime("2024-06-20 12:30:00+00:00")

\* m1 is listed twice, the older entry complete and the newer one bare; m2 has
\* empty (falsy) fields; m3 has no lastModified; two entries have no usable id.
HubModels ==
    { ModelInfo(Str("m1"), Str("alice"), Str("text-generation"), List(<<"nlp">>), D1),
      ModelInfo(Str("m1"), None, None, None, D2),
      ModelInfo(Str("m2"), Str(""), Str(""), List(<<>>), D1),
      ModelInfo(Str("m3"), Str("bob"), Str("fill-mask"), List(<<"nlp", "pytorch">>), None),
      ModelInfo(None, Str("alice"), Str("fill-mask"), List(<<"nlp">>), D1),
      ModelInfo(Str(""), None, Str("fill-mask"), None, D2) }

Min(a, b) == IF a <= b THEN a ELSE b

SeqsUpTo(S, n) == UNION { [1..k -> S] : k \in 0..n }

list_models == SeqsUpTo(HubModels, Min(limit, MaxModels))

(***************************************************************************)
(* XCom: the hand-off store of one DAG run.                                *)
(***************************************************************************)
RawKey == "raw_models"
TransformedKey == "transformed_models"
XComKeys == {RawKey, TransformedKey}

NoXCom == [k \in {} |-> None]

xcom_push(x, key, value) ==
    [k \in (DOMAIN x) \cup {key} |-> IF k = key THEN value ELSE x[k]]

\* None when nothing was pushed under the key.
xcom_pull(x, key) == Get(x, key)

(***************************************************************************)
(* EXTRACT                                                                 *)
(***************************************************************************)
\* One element of the raw_models comprehension.
RawRecord(m) ==
    [model_id |-> m.id,
     author |-> IF Truthy(m.author) THEN m.author ELSE None,
     pipeline_tag |-> IF Truthy(m.pipeline_tag) THEN m.pipeline_tag ELSE None,
     tags |-> IF Truthy(m.tags) THEN m.tags ELSE List(<<>>),
     last_modified |-> str(m.lastModified)]

raw_models(models) == [i \in 1..Len(models) |-> RawRecord(models[i])]

ExtractFaults == {"none", "list_models", "mapping"}

\* The except branch without its xcom_push.
ExtractXCom_NoPushOnError(x, models, fault) ==
    IF fault = "none"
    THEN xcom_push(x, RawKey, List(raw_models(models)))
    ELSE x

\* The XCom of the run after extract_model_data: the try branch pushes the
\* mapped list, the except branch pushes [].
ExtractXCom(x, models, fault) ==
    IF fault = "none"
    THEN xcom_push(x, RawKey, List(raw_models(models)))
    ELSE xcom_push(x, RawKey, List(<<>>))

ExtractReturn(fault) ==
    IF fault = "none" THEN "Extract completed successfully" ELSE "Extract failed"

(***************************************************************************)
(* TRANSFORM                                                               *)
(***************************************************************************)
\* The record without the `or` defaults.
CleanRecord_NoDefaults(m, mid) ==
    [model_id |-> mid,
     author |-> Get(m, "author"),
     pipeline_tag |-> Get(m, "pipeline_tag"),
     tags |-> Get(m, "tags"),
     last_modified |-> Get(m, "last_modified")]

CleanRecord(m, mid) ==
    [model_id |-> mid,
     author |-> Or(Get(m, "author"), Str("N/A")),
     pipeline_tag |-> Or(Get(m, "pipeline_tag"), Str("N/A")),
     tags |-> Or(Get(m, "tags"), List(<<>>)),
     last_modified |-> Get(m, "last_modified")]

\* The test without `mid in seen`.
Skipped_NoSeen(mid, seen) == ~Truthy(mid)

\* `if not mid or mid in seen: continue`
Skipped(mid, seen) == ~Truthy(mid) \/ mid \in seen

\* The loop that lets a later duplicate replace the record already emitted.
RECURSIVE TransformLoop_LastWins(_, _, _, _)
TransformLoop_LastWins(raw, i, seen, out) ==
    IF i > Len(raw) THEN out
    ELSE LET m == raw[i]
             mid == Get(m, "model_id")
         IN IF ~Truthy(mid)
            THEN TransformLoop_LastWins(raw, i + 1, seen, out)
            ELSE IF mid \in seen
            THEN TransformLoop_LastWins(raw, i + 1, seen,
                    [n \in 1..Len(out) |->
                        IF out[n].model_id = mid THEN CleanRecord(m, mid) ELSE out[n]])
            ELSE TransformLoop_LastWins(raw, i + 1, seen \cup {mid},
                                        Append(out, CleanRecord(m, mid)))

\* The for loop over raw_models from index i on, with the set of ids seen so
\* far and the list built so far.
RECURSIVE TransformLoop(_, _, _, _)
TransformLoop(raw, i, seen, out) ==
    IF i > Len(raw) THEN out
    ELSE LET m == raw[i]
             mid == Get(m, "model_id")
         IN IF Skipped(mid, seen)
            THEN TransformLoop(raw, i + 1, seen, out)
            ELSE TransformLoop(raw, i + 1, seen \cup {mid},
                               Append(out, CleanRecord(m, mid)))

transformed_data(raw) == TransformLoop(raw, 1, {}, <<>>)

(***************************************************************************)
(* The relational store.  ai_models is a sequence of rows (the heap);      *)
(* PostgresHook.run executes one statement and commits it.                 *)
(***************************************************************************)
Null == [sql |-> "NULL"]
Text(s) == [sql |-> "text", v |-> s]
Array(q) == [sql |-> "text[]", v |-> q]
Timestamp(s) == [sql |-> "timestamp", v |-> s]
InvalidTimestamp == [sql |-> "error", v |-> "invalid input syntax for type timestamp"]

\* A query parameter as the driver sends it: None is NULL, a str is text, a
\* list is an array.
Adapt(v) ==
    CASE v.py = "NoneType" -> Null
      [] v.py = "str" -> Text(v.v)
      [] v.py = "list" -> Array(v.v)

\* Text stored into the last_modified TIMESTAMP column: the zone offset of
\* the text is dropped; text that is no date is rejected.
ToTimestamp(p) ==
    CASE p = Null -> Null
      [] p = Text("2024-01-01 00:00:00+00:00") -> Timestamp("2024-01-01 00:00:00")
      [] p = Text("2024-06-20 12:30:00+00:00") -> Timestamp("2024-06-20 12:30:00")
      [] OTHER -> InvalidTimestamp

\* The row that insert_query writes for one cleaned record.
Row(model) ==
    [model_id |-> Adapt(model["model_id"]),
     author |-> Adapt(model["author"]),
     pipeline_tag |-> Adapt(model["pipeline_tag"]),
     tags |-> Adapt(model["tags"]),
     last_modified |-> ToTimestamp(Adapt(model["last_modified"]))]

\* The statement is rejected by the database whatever the connection does.
Rejected(model) == Row(model).last_modified = InvalidTimestamp

\* The statement without its ON CONFLICT clause on a table without the key.
Upsert_InsertOnly(tbl, model) == Append(tbl, Row(model))

\* INSERT ... ON CONFLICT (model_id) DO UPDATE SET author, pipeline_tag,
\* tags, last_modified = EXCLUDED.*
Upsert(tbl, model) ==
    LET row == Row(model)
    IN IF \E i \in 1..Len(tbl) : tbl[i].model_id = row.model_id
       THEN [i \in 1..Len(tbl) |->
                IF tbl[i].model_id = row.model_id THEN row ELSE tbl[i]]
       ELSE Append(tbl, row)

\* The table after the first n records of data were upserted, in order.
RECURSIVE UpsertPrefix(_, _, _)
UpsertPrefix(tbl, data, n) ==
    IF n = 0 THEN tbl ELSE Upsert(UpsertPrefix(tbl, data, n - 1), data[n])

CreateStmt == [stmt |-> "create_table_query", parameters |-> <<>>]
InsertStmt(model) ==
    [stmt |-> "insert_query",
     parameters |-> <<model["model_id"], model["author"], model["pipeline_tag"],
                      model["tags"], model["last_modified"]>>]

(***************************************************************************)
(* LOAD                                                                    *)
(***************************************************************************)
\* `if transformed_data is None`
NoData_IsNone(data) == data = None

\* `if not transformed_data`
NoData(data) == ~Truthy(data)

\* The upsert that raises, 0 for none: a record the database rejects always
\* raises; any other statement may raise (connection lost, server error).
UpsertFaults(data) ==
    { k \in 0..Len(data) :
        \A j \in 1..Len(data) : Rejected(data[j]) => (k # 0 /\ k <= j) }

\* The loop inside one transaction, rolled back when a statement raises.
Committed_Rollback(data, k) == IF k = 0 THEN Len(data) ELSE 0

\* Upserts whose effect is in the table when the k-th raised (k = 0: none
\* raised): each run() commits on its own, nothing wraps the loop.
Committed(data, k) == IF k = 0 THEN Len(data) ELSE k - 1

\* Upserts sent to the database when the k-th raised.
Attempted(data, k) == IF k = 0 THEN Len(data) ELSE k

\* f"loaded {len(transformed_data)} models"
LoadReturn(data) ==
    IF NoData(data) THEN "No data to load"
    ELSE "loaded " \o ToString(Len(data.v)) \o " models"

(***************************************************************************)
(* The DAG: extract_task >> transform_task >> load_task, default_args.     *)
(***************************************************************************)
ExtractTask == "extract_huggingface_models"
TransformTask == "transform_model_data"
LoadTask == "load_to_postgres"
Tasks == {ExtractTask, TransformTask, LoadTask}

\* The tasks without the >> line.
Upstream_None(t) == {}

\* direct upstream tasks set by >>
Upstream(t) ==
    CASE t = ExtractTask -> {}
      [] t = TransformTask -> {ExtractTask}
      [] t = LoadTask -> {TransformTask}

retries == 1

NotRun == "(not run)"
Raised == "(raised)"

VARIABLES
    ti,          \* task instance of each task: state and try_number
    xcom,        \* XCom of the current DAG run
    returned,    \* what the last call of each callable returned, or Raised
    tableExists, \* ai_models exists
    table,       \* rows of ai_models
    pushes,      \* xcom_push calls of the current run, per key
    pulls,       \* xcom_pull calls of the current run, per key
    issued,      \* statements the last load_to_postgres call sent
    failedAt,    \* the upsert that raised in the last load call, 0 for none
    tablePre,    \* the table when the last load call started
    existsPre,   \* tableExists when the last load call started
    table0,      \* the table when the first load call of the run started
    lastLoaded,  \* the list of the preceding load call that returned, or None
    repeated     \* the last load call returned and had the list of lastLoaded

vars == <<ti, xcom, returned, tableExists, table, pushes, pulls, issued,
          failedAt, tablePre, existsPre, table0, lastLoaded, repeated>>

db == <<tableExists, table>>
loadLog == <<issued, failedAt, tablePre, existsPre, table0, lastLoaded, repeated>>

NewTI == [t \in Tasks |-> [state |-> "none", try_number |-> 0]]

Init ==
    /\ ti = NewTI
    /\ xcom = NoXCom
    /\ returned = [t \in Tasks |-> NotRun]
    /\ tableExists = FALSE
    /\ table = <<>>
    /\ pushes = [k \in XComKeys |-> 0]
    /\ pulls = [k \in XComKeys |-> 0]
    /\ issued = <<>>
    /\ failedAt = 0
    /\ tablePre = <<>>
    /\ existsPre = FALSE
    /\ table0 = <<>>
    /\ lastLoaded = None
    /\ repeated = FALSE

\* The scheduler starts a task whose upstream tasks all succeeded
\* (first try, or the retry that default_args allows); what an earlier try
\* of the task returned is cleared.
Schedule(t) ==
    /\ ti[t].state \in {"none", "up_for_retry"}
    /\ \A u \in Upstream(t) : ti[u].state = "success"
    /\ ti' = [ti EXCEPT ![t] = [state |-> "running", try_number |-> @.try_number + 1]]
    /\ returned' = [returned EXCEPT ![t] = NotRun]
    /\ UNCHANGED <<xcom, db, pushes, pulls, loadLog>>

\* The state of a task instance whose callable raised.
AfterRaise(t) ==
    [ti EXCEPT ![t].state = IF ti[t].try_number <= retries THEN "up_for_retry" ELSE "failed"]

AfterReturn(t) == [ti EXCEPT ![t].state = "success"]

extract_model_data ==
    /\ ti[ExtractTask].state = "running"
    /\ \E models \in list_models, fault \in ExtractFaults :
        /\ xcom' = ExtractXCom(xcom, models, fault)
        /\ returned' = [returned EXCEPT ![ExtractTask] = ExtractReturn(fault)]
    /\ pushes' = [pushes EXCEPT ![RawKey] = @ + 1]
    /\ ti' = AfterReturn(ExtractTask)
    /\ UNCHANGED <<db, pulls, loadLog>>

transform_model_data ==
    /\ ti[TransformTask].state = "running"
    /\ LET raw == Or(xcom_pull(xcom, RawKey), List(<<>>))
       IN xcom' = xcom_push(xcom, TransformedKey, List(transformed_data(raw.v)))
    /\ pulls' = [pulls EXCEPT ![RawKey] = @ + 1]
    /\ pushes' = [pushes EXCEPT ![TransformedKey] = @ + 1]
    /\ returned' = [returned EXCEPT ![TransformTask] = "Transform completed successfully"]
    /\ ti' = AfterReturn(TransformTask)
    /\ UNCHANGED <<db, loadLog>>

\* One call of load_to_postgres.  createFails: the CREATE TABLE statement
\* (the first use of the connection) raises; k: the upsert that raises.
load_to_postgres ==
    /\ ti[LoadTask].state = "running"
    /\ LET transformed == xcom_pull(xcom, TransformedKey)
       IN /\ pulls' = [pulls EXCEPT ![TransformedKey] = @ + 1]
          /\ tablePre' = table
          /\ existsPre' = tableExists
          /\ table0' = IF ti[LoadTask].try_number = 1 THEN table ELSE table0
          /\ IF NoData(transformed)
             THEN /\ returned' = [returned EXCEPT ![LoadTask] = LoadReturn(transformed)]
                  /\ ti' = AfterReturn(LoadTask)
                  /\ issued' = <<>>
                  /\ failedAt' = 0
                  /\ repeated' = (lastLoaded = transformed)
                  /\ lastLoaded' = transformed
                  /\ UNCHANGED db
             ELSE \E createFails \in BOOLEAN, k \in UpsertFaults(transformed.v) :
                    LET data == transformed.v
                    IN IF createFails
                       THEN /\ issued' = <<CreateStmt>>
                            /\ failedAt' = 0
                            /\ returned' = [returned EXCEPT ![LoadTask] = Raised]
                            /\ ti' = AfterRaise(LoadTask)
                            /\ repeated' = FALSE
                            /\ lastLoaded' = None
                            /\ UNCHANGED db
                       ELSE /\ tableExists' = TRUE
                            /\ table' = UpsertPrefix(table, data, Committed(data, k))
                            /\ issued' = <<CreateStmt>> \o
                                  [i \in 1..Attempted(data, k) |-> InsertStmt(data[i])]
                            /\ failedAt' = k
                            /\ returned' = [returned EXCEPT ![LoadTask] =
                                  IF k = 0 THEN LoadReturn(transformed) ELSE Raised]
                            /\ ti' = IF k = 0 THEN AfterReturn(LoadTask)
                                     ELSE AfterRaise(LoadTask)
                            /\ repeated' = (k = 0 /\ lastLoaded = transformed)
                            /\ lastLoaded' = IF k = 0 THEN transformed ELSE None
    /\ UNCHANGED <<xcom, pushes>>

\* schedule='@daily': once the run is over (the last task succeeded or is out
\* of retries) the next DAG run starts with an XCom of its own.
NextRun ==
    /\ ti[LoadTask].state \in {"success", "failed"}
    /\ ti' = NewTI
    /\ xcom' = NoXCom
    /\ returned' = [t \in Tasks |-> NotRun]
    /\ pushes' = [k \in XComKeys |-> 0]
    /\ pulls' = [k \in XComKeys |-> 0]
    /\ issued' = <<>>
    /\ failedAt' = 0
    /\ tablePre' = table
    /\ existsPre' = tableExists
    /\ table0' = table
    /\ repeated' = FALSE
    /\ UNCHANGED <<db, lastLoaded>>

Next ==
    \/ \E t \in Tasks : Schedule(t)
    \/ extract_model_data
    \/ transform_model_data
    \/ load_to_postgres
    \/ NextRun

Spec == Init /\ [][Next]_vars

(***************************************************************************)
(* Properties                                                              *)
(***************************************************************************)
TransformRan == TransformedKey \in DOMAIN xcom
Raw == xcom[RawKey].v
Clean == xcom[TransformedKey].v

\* Indices of the raw records that carry a usable model_id not carried by
\* an earlier record, and the position of such an index among them.
FirstIdx(raw) ==
    { i \in 1..Len(raw) :
        /\ raw[i].model_id \notin {None, Str("")}
        /\ \A j \in 1..(i - 1) : raw[j].model_id # raw[i].model_id }
Rank(S, i) == Cardinality({ j \in S : j <= i })

\* C1: the list written under transformed_models holds no two records with
\* equal model_id and no record whose model_id is absent or empty.
C1_UniqueNonEmptyIds ==
    TransformRan =>
        /\ \A i, j \in 1..Len(Clean) : i # j => Clean[i].model_id # Clean[j].model_id
        /\ \A i \in 1..Len(Clean) : Clean[i].model_id \notin {None, Str("")}

\* A raw list with a duplicate id and a record without a usable id was
\* transformed.
C1_Witness ==
    /\ TransformRan
    /\ \E i, j, n \in 1..Len(Raw) :
        /\ i < j
        /\ Raw[i].model_id = Raw[j].model_id
        /\ Truthy(Raw[i].model_id)
        /\ ~Truthy(Raw[n].model_id)

\* C2: the output is the subsequence of first occurrences: one record per
\* first occurrence, in input order, each taken from the first raw record
\* with its id and from no later duplicate.
C2_FirstOccurrences ==
    TransformRan =>
        /\ Len(Clean) = Cardinality(FirstIdx(Raw))
        /\ \A i \in FirstIdx(Raw) :
            LET o == Clean[Rank(FirstIdx(Raw), i)]
            IN /\ o.model_id = Raw[i].model_id
               /\ o.last_modified = Raw[i].last_modified
               /\ o.author \in {Raw[i].author, Str("N/A")}
               /\ o.pipeline_tag \in {Raw[i].pipeline_tag, Str("N/A")}
               /\ o.tags = Raw[i].tags

\* A bare record was followed by a more complete duplicate, after a record
\* with another id.
C2_Witness ==
    /\ TransformRan
    /\ Len(Clean) = 2
    /\ \E i, j \in 1..Len(Raw) :
        /\ i < j
        /\ Raw[i].model_id = Raw[j].model_id
        /\ Raw[i].author = None
        /\ Raw[j].author # None
        /\ i \in FirstIdx(Raw)

\* C3: in every emitted record a missing author or pipeline_tag is "N/A", a
\* missing tags is the empty list, present values and last_modified are passed
\* through, and author, pipeline_tag and tags are never absent.
C3_Defaults ==
    TransformRan =>
        \A i \in FirstIdx(Raw) :
            LET r == Raw[i]
                o == Clean[Rank(FirstIdx(Raw), i)]
            IN /\ o.author = IF r.author = None THEN Str("N/A") ELSE r.author
               /\ o.pipeline_tag =
                    IF r.pipeline_tag = None THEN Str("N/A") ELSE r.pipeline_tag
               /\ o.tags = IF r.tags = None THEN List(<<>>) ELSE r.tags
               /\ o.last_modified = r.last_modified
               /\ None \notin {o.author, o.pipeline_tag, o.tags}

\* One emitted record had neither author nor pipeline_tag, another had both.
C3_Witness ==
    /\ TransformRan
    /\ \E i, j \in FirstIdx(Raw) :
        /\ Raw[i].author = None
        /\ Raw[i].pipeline_tag = None
        /\ Clean[Rank(FirstIdx(Raw), i)].author = Str("N/A")
        /\ Raw[j].author # None
        /\ Raw[j].pipeline_tag # None
        /\ Raw[j].tags # List(<<>>)

\* C4: when the API call or the mapping raises, extract_model_data returns
\* "Extract failed" without raising and raw_models holds the empty list; the
\* Transformer never starts without a value under raw_models.
C4_ExtractSoftFailure ==
    /\ returned[ExtractTask] = "Extract failed" =>
        /\ ti[ExtractTask].state = "success"
        /\ RawKey \in DOMAIN xcom
        /\ xcom[RawKey] = List(<<>>)
    /\ ti[TransformTask].state # "none" =>
        /\ RawKey \in DOMAIN xcom
        /\ xcom_pull(xcom, RawKey) # None

\* The extraction failed and the Transformer ran on the empty list.
C4_Witness ==
    /\ returned[ExtractTask] = "Extract failed"
    /\ ti[TransformTask].state = "success"
    /\ Clean = <<>>

LoadCalled == ti[LoadTask].state \in {"success", "up_for_retry", "failed"}
RowsOf(tbl, id) == { i \in 1..Len(tbl) : tbl[i].model_id = Adapt(id) }
UniqueIds(tbl) ==
    \A i, j \in 1..Len(tbl) : i # j => tbl[i].model_id # tbl[j].model_id

\* The table holds exactly one row for the record, with the record's values.
HoldsRecord(tbl, rec) ==
    /\ Cardinality(RowsOf(tbl, rec.model_id)) = 1
    /\ \A i \in RowsOf(tbl, rec.model_id) :
        /\ tbl[i].author = Adapt(rec.author)
        /\ tbl[i].pipeline_tag = Adapt(rec.pipeline_tag)
        /\ tbl[i].tags = Adapt(rec.tags)
        /\ tbl[i].last_modified = ToTimestamp(Adapt(rec.last_modified))

\* C5: when transformed_models is empty or absent, load_to_postgres returns
\* "No data to load" without raising and sends no statement: the table exists
\* or not, and holds, what it did before the call.
C5_NoDataNoStatements ==
    (LoadCalled /\ ~Truthy(xcom_pull(xcom, TransformedKey))) =>
        /\ returned[LoadTask] = "No data to load"
        /\ ti[LoadTask].state = "success"
        /\ issued = <<>>
        /\ table = tablePre
        /\ tableExists = existsPre

\* The Loader was called on an empty list while the table held rows.
C5_Witness ==
    /\ LoadCalled
    /\ Clean = <<>>
    /\ returned[LoadTask] = "No data to load"
    /\ Len(table) > 0

\* C6: a load that returns right after a load of the same list that returned
\* leaves the table as the first left it, with exactly one row per model_id
\* of the list, holding the values of the list.
C6_LoadIdempotent ==
    (ti[LoadTask].state = "success" /\ repeated) =>
        /\ table = tablePre
        /\ \A n \in 1..Len(Clean) : HoldsRecord(table, Clean[n])

\* The same non-empty list was loaded twice in a row into a table that holds
\* a further row.
C6_Witness ==
    /\ ti[LoadTask].state = "success"
    /\ repeated
    /\ Len(Clean) >= 1
    /\ Len(table) > Len(Clean)

\* C7: when the k-th upsert raises, load_to_postgres raises, the statements
\* sent are the CREATE and the upserts 1..k, and the table is the prior table
\* with exactly the records 1..k-1 upserted.
C7_PartialLoad ==
    (returned[LoadTask] = Raised /\ failedAt >= 1) =>
        /\ ti[LoadTask].state \in {"up_for_retry", "failed"}
        /\ issued = <<CreateStmt>> \o [i \in 1..failedAt |-> InsertStmt(Clean[i])]
        /\ table = UpsertPrefix(tablePre, Clean, failedAt - 1)
        /\ \A j \in 1..(failedAt - 1) : HoldsRecord(table, Clean[j])
        /\ \A j \in failedAt..Len(Clean) :
            { table[i] : i \in RowsOf(table, Clean[j].model_id) }
                = { tablePre[i] : i \in RowsOf(tablePre, Clean[j].model_id) }

\* The second of three upserts raised on a table that held rows.
C7_Witness ==
    /\ returned[LoadTask] = Raised
    /\ failedAt = 2
    /\ Len(Clean) = 3
    /\ Len(tablePre) > 0
    /\ table # tablePre

\* Records of the last load call whose upsert was committed.
CommittedNow ==
    IF returned[LoadTask] = Raised THEN failedAt - 1
    ELSE IF returned[LoadTask] = "No data to load" THEN 0 ELSE Len(Clean)

\* A step keeps every row at its place under its model_id, and a load call
\* leaves the incoming values in the one row of each record it upserted.
RowsKeptInPlace ==
    /\ Len(table') >= Len(table)
    /\ \A i \in 1..Len(table) : table'[i].model_id = table[i].model_id
    /\ (ti[LoadTask].state = "running" /\ ti'[LoadTask].state # "running") =>
        \A j \in 1..CommittedNow' : HoldsRecord(table', xcom'[TransformedKey].v[j])

\* C8: ai_models never holds two rows with one model_id; loading a record
\* whose model_id has a row overwrites that row in place; no step removes a
\* row.
C8_OneRowPerId == [](UniqueIds(table)) /\ [][RowsKeptInPlace]_vars

\* A load overwrote a row the table already held.
C8_Witness ==
    /\ ti[LoadTask].state = "success"
    /\ Len(tablePre) > 0
    /\ Len(table) = Len(tablePre)
    /\ table # tablePre

\* C9: at most one task runs at a time; the Transformer starts only after the
\* Extractor succeeded and pushed raw_models, the Loader only after the
\* Transformer pushed transformed_models; each key is pushed exactly once by
\* its producer and pulled once per call of its consumer, so at most once
\* unless the Loader raised and was retried.
C9_Sequential ==
    /\ Cardinality({ t \in Tasks : ti[t].state = "running" }) <= 1
    /\ ti[TransformTask].state # "none" =>
        /\ ti[ExtractTask].state = "success"
        /\ RawKey \in DOMAIN xcom
    /\ ti[LoadTask].state # "none" =>
        /\ ti[TransformTask].state = "success"
        /\ TransformedKey \in DOMAIN xcom
    /\ pushes[RawKey] = IF ti[ExtractTask].state = "success" THEN 1 ELSE 0
    /\ pushes[TransformedKey] = IF ti[TransformTask].state = "success" THEN 1 ELSE 0
    /\ pulls[RawKey] <= 1
    /\ pulls[TransformedKey] <= ti[LoadTask].try_number
    /\ ti[LoadTask].try_number <= 1 => pulls[TransformedKey] <= 1

\* A run went through the caught failure of the Extractor to the end.
C9_Witness ==
    /\ returned[ExtractTask] = "Extract failed"
    /\ ti[LoadTask].state = "success"
    /\ pushes = [k \in XComKeys |-> 1]
    /\ pulls = [k \in XComKeys |-> 1]

\* C10: when the Loader raised and its retry on the same list returned, the
\* table is what one load of the list would have made of the table the run
\* started with, without duplicate or stale rows.
C10_RetryConverges ==
    (ti[LoadTask].state = "success" /\ ti[LoadTask].try_number > 1) =>
        /\ table = UpsertPrefix(table0, Clean, Len(Clean))
        /\ UniqueIds(table)
        /\ \A n \in 1..Len(Clean) : HoldsRecord(table, Clean[n])

\* The first call committed a prefix over a table that held rows, the retry
\* returned.
C10_Witness ==
    /\ ti[LoadTask].state = "success"
    /\ ti[LoadTask].try_number = 2
    /\ Len(table0) > 0
    /\ tablePre # table0
    /\ table # tablePre

====
